---- MODULE Spec2Model ----
(***************************************************************************)
(* Wave-U-Net with dilated convolutions (models/unet_dilation.py).         *)
(*                                                                         *)
(* The model follows the shapes of the tensors, not their values: a tensor *)
(* is its channel count and its length (the batch dimension is carried     *)
(* unchanged by every operation of the file and is left out), tagged with  *)
(* the forward call and the encoder stage that produced it.  UNet.__init__ *)
(* is run one loop iteration at a time, UNet.forward one stage at a time.  *)
(***************************************************************************)
EXTENDS Integers, Sequences, FiniteSets, TLC

\* Bounds of the model.
MaxLayers == 2
MaxInterval == 2
MaxKernel == 3
MaxRate == 2
MaxDilated == 2
MaxLen == 8
MaxCalls == 2

\* Constants of the program.
DefaultChannelsInterval == 24
DefaultKernelEncoder == 15
DefaultKernelDecoder == 5
MiddleKernel == 15
MiddlePadding == 7

VARIABLES
    args,   \* the arguments of UNet.__init__, dropped when it returns
    pc,     \* where the program is
    i,      \* the loop index of the running loop
    net,    \* self: n_layers, channels_interval, encoder, middle, decoder, out
    exc,    \* the exception UNet.__init__ raised, "none" otherwise
    call,   \* number of forward calls started so far
    ipt,    \* forward's argument
    o,      \* forward's running tensor
    tmp,    \* forward's list of skip tensors
    reads,  \* history: what each decoder stage of this call concatenated
    ret     \* what the last forward call returned or raised

vars == <<args, pc, i, net, exc, call, ipt, o, tmp, reads, ret>>

----------------------------------------------------------------------------
\* Python values

\* dilation_in_encoder=None / dilation_in_decoder=None
None == [present |-> FALSE, layers |-> <<>>, dilated_rates |-> <<>>]

DilationConfig(l, r) == [present |-> TRUE, layers |-> l, dilated_rates |-> r]

\* s[k] of a Python list (0-based)
At(s, k) == s[k + 1]

\* s[::-1]
Reverse(s) == [k \in 1..Len(s) |-> s[Len(s) + 1 - k]]

\* x in s
Contains(s, x) == \E k \in 1..Len(s) : s[k] = x

\* s.index(x), for x in s: the first position, 0-based
IndexOf(s, x) == (CHOOSE k \in 1..Len(s) : s[k] = x /\ \A m \in 1..(k - 1) : s[m] # x) - 1

\* ceil(a / 2) for an integer a >= 0
CeilHalf(a) == (a + 1) \div 2

\* calculate_same_padding of utils.utils: the symmetric padding p for which a
\* convolution of stride `stride` keeps (l_in - 1) * stride + 1 samples apart,
\* rounded up; at stride 1 it is ceil(dilation * (kernel_size - 1) / 2).
calculate_same_padding(l_in, kernel_size, stride, dilation) ==
    CeilHalf((l_in - 1) * stride + 1 + dilation * (kernel_size - 1) - l_in)

----------------------------------------------------------------------------
\* Layers

Layer(channel_in, channel_out, dilation, kernel_size, stride, padding) ==
    [channel_in |-> channel_in, channel_out |-> channel_out, dilation |-> dilation,
     kernel_size |-> kernel_size, stride |-> stride, padding |-> padding]

DownSamplingLayer(channel_in, channel_out, dilation, kernel_size, stride, padding) ==
    Layer(channel_in, channel_out, dilation, kernel_size, stride, padding)

UpSamplingLayer(channel_in, channel_out, dilation, kernel_size, stride, padding) ==
    Layer(channel_in, channel_out, dilation, kernel_size, stride, padding)

----------------------------------------------------------------------------
\* UNet.__init__

\* [i * ci for i in range(0, n)]: the list one interval too narrow
MutEncoderOutFromZero(n, ci) == [k \in 1..n |-> (k - 1) * ci]

encoder_in_channels_list(n, ci) == <<1>> \o [k \in 1..(n - 1) |-> k * ci]

encoder_out_channels_list(n, ci) == [k \in 1..n |-> k * ci]

\* the list without its [::-1]
MutDecoderInNotReversed(n, ci) ==
    [k \in 1..(n - 1) |-> (2 * k + 1) * ci] \o <<2 * n * ci>>

decoder_in_channels_list(n, ci) ==
    Reverse([k \in 1..(n - 1) |-> (2 * k + 1) * ci] \o <<2 * n * ci>>)

decoder_out_channels_list(n, ci) == Reverse(encoder_out_channels_list(n, ci))

\* the layer number looked up 0-based
MutLayerNumberZeroBased(k) == k

\* (i + 1): the 1-based number of the layer built by iteration i
LayerNumber(k) == k + 1

\* dilated_rate after the lookup: None, an integer, or the IndexError of
\* dilated_rates[index_in_dilated_rates]
dilated_rate(cfg, k) ==
    IF Contains(cfg.layers, LayerNumber(k))
    THEN LET index_in_dilated_rates == IndexOf(cfg.layers, LayerNumber(k))
         IN  IF index_in_dilated_rates >= Len(cfg.dilated_rates)
             THEN [kind |-> "IndexError", val |-> 0]
             ELSE [kind |-> "int", val |-> At(cfg.dilated_rates, index_in_dilated_rates)]
    ELSE [kind |-> "None", val |-> 0]

\* dilated_rate if dilated_rate else 1
DilationOf(r) == IF r.kind = "int" /\ r.val # 0 THEN r.val ELSE 1

\* the padding computed with the dilation argument left at its default
MutEncoderPaddingNoDilation(a, k, r) ==
    calculate_same_padding(At(encoder_in_channels_list(a.n_layers, a.channels_interval), k),
                           a.kernel_size_in_encoder, 1, 1)

EncoderPadding(a, k, r) ==
    calculate_same_padding(At(encoder_in_channels_list(a.n_layers, a.channels_interval), k),
                           a.kernel_size_in_encoder, 1, DilationOf(r))

DecoderPadding(a, k, r) ==
    calculate_same_padding(At(encoder_in_channels_list(a.n_layers, a.channels_interval), k),
                           a.kernel_size_in_decoder, 1, DilationOf(r))

EncoderLayer(a, k, r) ==
    DownSamplingLayer(At(encoder_in_channels_list(a.n_layers, a.channels_interval), k),
                      At(encoder_out_channels_list(a.n_layers, a.channels_interval), k),
                      DilationOf(r), a.kernel_size_in_encoder, 1, EncoderPadding(a, k, r))

DecoderLayer(a, k, r) ==
    UpSamplingLayer(At(decoder_in_channels_list(a.n_layers, a.channels_interval), k),
                    At(decoder_out_channels_list(a.n_layers, a.channels_interval), k),
                    DilationOf(r), a.kernel_size_in_decoder, 1, DecoderPadding(a, k, r))

MiddleLayer(n, ci) == Layer(n * ci, n * ci, 1, MiddleKernel, 1, MiddlePadding)

OutLayer(ci) == Layer(1 + ci, 1, 1, 1, 1, 0)

NoArgs ==
    [n_layers |-> 0, channels_interval |-> 0, kernel_size_in_encoder |-> 0,
     kernel_size_in_decoder |-> 0, dilation_in_encoder |-> None,
     dilation_in_decoder |-> None]

NoTensor == [channels |-> 0, length |-> 0, call |-> 0, stage |-> -1]

NoResult == [kind |-> "none", channels |-> 0, length |-> 0]

Raise(e) ==
    /\ pc' = "raised"
    /\ exc' = e
    /\ UNCHANGED <<args, i, net, call, ipt, o, tmp, reads, ret>>

\* one iteration of the encoder loop
BuildEncoderLayer ==
    /\ pc = "encoder"
    /\ i < args.n_layers
    /\ IF ~args.dilation_in_encoder.present
       THEN Raise("TypeError")
       ELSE LET r == dilated_rate(args.dilation_in_encoder, i)
            IN  IF r.kind = "IndexError"
                THEN Raise("IndexError")
                ELSE /\ net' = [net EXCEPT !.encoder = Append(@, EncoderLayer(args, i, r))]
                     /\ i' = i + 1
                     /\ UNCHANGED <<args, pc, exc, call, ipt, o, tmp, reads, ret>>

\* self.middle and the decoder's channel lists
BuildMiddle ==
    /\ pc = "encoder"
    /\ i = args.n_layers
    /\ net' = [net EXCEPT !.middle = <<MiddleLayer(net.n_layers, net.channels_interval)>>]
    /\ pc' = "decoder"
    /\ i' = 0
    /\ UNCHANGED <<args, exc, call, ipt, o, tmp, reads, ret>>

\* one iteration of the decoder loop
BuildDecoderLayer ==
    /\ pc = "decoder"
    /\ i < args.n_layers
    /\ IF ~args.dilation_in_decoder.present
       THEN Raise("TypeError")
       ELSE LET r == dilated_rate(args.dilation_in_decoder, i)
            IN  IF r.kind = "IndexError"
                THEN Raise("IndexError")
                ELSE /\ net' = [net EXCEPT !.decoder = Append(@, DecoderLayer(args, i, r))]
                     /\ i' = i + 1
                     /\ UNCHANGED <<args, pc, exc, call, ipt, o, tmp, reads, ret>>

\* self.out
BuildOut ==
    /\ pc = "decoder"
    /\ i = args.n_layers
    /\ net' = [net EXCEPT !.out = <<OutLayer(net.channels_interval)>>]
    /\ pc' = "constructed"
    /\ UNCHANGED <<args, i, exc, call, ipt, o, tmp, reads, ret>>

\* __init__ returns: its arguments and locals are gone, self stays
Return ==
    /\ pc = "constructed"
    /\ pc' = "idle"
    /\ args' = NoArgs
    /\ i' = 0
    /\ UNCHANGED <<net, exc, call, ipt, o, tmp, reads, ret>>

----------------------------------------------------------------------------
\* UNet.forward

Tensor(channels, length, c, stage) ==
    [channels |-> channels, length |-> length, call |-> c, stage |-> stage]

ShapeError == [channels |-> -1, length |-> -1, call |-> 0, stage |-> -1]

\* nn.Conv1d on a [channels, length] tensor: the input must have the declared
\* channel_in channels and be no shorter, padded, than the dilated kernel
Conv1d(layer, t) ==
    LET span   == layer.dilation * (layer.kernel_size - 1) + 1
        padded == t.length + 2 * layer.padding
    IN  IF t.channels # layer.channel_in \/ padded < span
        THEN ShapeError
        ELSE Tensor(layer.channel_out, (padded - span) \div layer.stride + 1, t.call, -1)

\* o[:, :, ::2]: the samples at the even positions 0, 2, 4, ...
Decimate(t) ==
    [t EXCEPT !.length = Cardinality({k \in 0..(t.length - 1) : k % 2 = 0}), !.stage = -1]

\* F.interpolate(o, scale_factor=2, mode="linear", align_corners=True)
Interpolate(t) == [t EXCEPT !.length = 2 * t.length, !.stage = -1]

\* torch.cat([a, b], dim=1): every dimension but the channels must agree
Cat(a, b) ==
    IF a.length # b.length
    THEN ShapeError
    ELSE Tensor(a.channels + b.channels, a.length, a.call, -1)

\* the list forward starts from, kept from the call before
MutTmpKept == tmp

\* tmp = []
InitialTmp == <<>>

\* self.n_layers - i - 1: the position of the skip tensor of decoder stage k
SkipIndex(k) == net.n_layers - k - 1

Fail ==
    /\ pc' = "idle"
    /\ ret' = [kind |-> "ShapeError", channels |-> 0, length |-> 0]
    /\ UNCHANGED <<args, i, net, exc, call, ipt, o, tmp, reads>>

\* forward is called with a tensor of shape [batch, 1, len]
ForwardBegin(len) ==
    /\ pc = "idle"
    /\ call < MaxCalls
    /\ call' = call + 1
    /\ ipt' = Tensor(1, len, call + 1, -1)
    /\ o' = Tensor(1, len, call + 1, -1)
    /\ tmp' = InitialTmp
    /\ reads' = <<>>
    /\ ret' = NoResult
    /\ i' = 0
    /\ pc' = "down"
    /\ UNCHANGED <<args, net, exc>>

\* one iteration of the first loop: encoder stage, push, decimate
EncoderStep ==
    /\ pc = "down"
    /\ i < net.n_layers
    /\ LET c == Conv1d(At(net.encoder, i), o)
       IN  IF c = ShapeError
           THEN Fail
           ELSE /\ tmp' = Append(tmp, [c EXCEPT !.stage = i])
                /\ o' = Decimate(c)
                /\ i' = i + 1
                /\ UNCHANGED <<args, pc, net, exc, call, ipt, reads, ret>>

\* o = self.middle(o)
Middle ==
    /\ pc = "down"
    /\ i = net.n_layers
    /\ LET c == Conv1d(net.middle[1], o)
       IN  IF c = ShapeError
           THEN Fail
           ELSE /\ o' = c
                /\ i' = 0
                /\ pc' = "up"
                /\ UNCHANGED <<args, net, exc, call, ipt, tmp, reads, ret>>

\* one iteration of the second loop: interpolate, concatenate, decoder stage
DecoderStep ==
    /\ pc = "up"
    /\ i < net.n_layers
    /\ LET skip == At(tmp, SkipIndex(i))
           cat  == Cat(Interpolate(o), skip)
           c    == IF cat = ShapeError THEN ShapeError ELSE Conv1d(At(net.decoder, i), cat)
       IN  IF cat = ShapeError
           THEN Fail
           ELSE /\ reads' = Append(reads, [stage |-> i, skip |-> skip, channels |-> cat.channels])
                /\ IF c = ShapeError
                   THEN /\ pc' = "idle"
                        /\ ret' = [kind |-> "ShapeError", channels |-> 0, length |-> 0]
                        /\ UNCHANGED <<args, i, net, exc, call, ipt, o, tmp>>
                   ELSE /\ o' = c
                        /\ i' = i + 1
                        /\ UNCHANGED <<args, pc, net, exc, call, ipt, tmp, ret>>

\* the concatenation with the input, self.out, return
Out ==
    /\ pc = "up"
    /\ i = net.n_layers
    /\ LET cat == Cat(o, ipt)
           c   == IF cat = ShapeError THEN ShapeError ELSE Conv1d(net.out[1], cat)
       IN  IF c = ShapeError
           THEN Fail
           ELSE /\ o' = c
                /\ ret' = [kind |-> "tensor", channels |-> c.channels, length |-> c.length]
                /\ pc' = "idle"
                /\ UNCHANGED <<args, i, net, exc, call, ipt, tmp, reads>>

----------------------------------------------------------------------------
\* The arguments UNet is constructed with

SeqsUpTo(S, m) == UNION {[1..k -> S] : k \in 0..m}

Distinct(s) == \A j, k \in 1..Len(s) : j # k => s[j] # s[k]

\* DilationConfig values as the data model states them: distinct layer numbers
\* in [1, n], as many positive rates
ValidConfig(cfg, n) ==
    /\ cfg.present
    /\ Len(cfg.layers) = Len(cfg.dilated_rates)
    /\ \A k \in 1..Len(cfg.layers) : cfg.layers[k] \in 1..n
    /\ Distinct(cfg.layers)
    /\ \A k \in 1..Len(cfg.dilated_rates) : cfg.dilated_rates[k] >= 1

ValidDilations(n, m) ==
    {DilationConfig(l, r) : l \in {s \in SeqsUpTo(1..n, m) : Distinct(s)},
                            r \in SeqsUpTo(1..MaxRate, m)}
    \cap {cfg \in [present : {TRUE}, layers : SeqsUpTo(1..n, m),
                   dilated_rates : SeqsUpTo(1..MaxRate, m)] :
             Len(cfg.layers) = Len(cfg.dilated_rates)}

AnyDilations(n, m) ==
    {DilationConfig(l, r) : l \in SeqsUpTo(1..(n + 1), m), r \in SeqsUpTo(1..MaxRate, m)}

Args(n, ci, ke, kd, de, dd) ==
    [n_layers |-> n, channels_interval |-> ci, kernel_size_in_encoder |-> ke,
     kernel_size_in_decoder |-> kd, dilation_in_encoder |-> de,
     dilation_in_decoder |-> dd]

\* the state on entry to the encoder loop of __init__
InitWith(a) ==
    /\ args = a
    /\ pc = "encoder"
    /\ i = 0
    /\ net = [n_layers |-> a.n_layers, channels_interval |-> a.channels_interval,
              encoder |-> <<>>, middle |-> <<>>, decoder |-> <<>>, out |-> <<>>]
    /\ exc = "none"
    /\ call = 0
    /\ ipt = NoTensor
    /\ o = NoTensor
    /\ tmp = <<>>
    /\ reads = <<>>
    /\ ret = NoResult

\* every size, dilation absent or naming at most one layer
Init ==
    \E n \in 1..MaxLayers, ci \in 1..MaxInterval, ke \in 1..MaxKernel, kd \in 1..MaxKernel :
        \E de \in {None} \cup ValidDilations(n, 1), dd \in {None} \cup ValidDilations(n, 1) :
            InitWith(Args(n, ci, ke, kd, de, dd))

\* the default kernels, dilation naming at most one layer
InitForward ==
    \E n \in 1..MaxLayers, ci \in 1..MaxInterval :
        \E de \in ValidDilations(n, 1), dd \in ValidDilations(n, 1) :
            InitWith(Args(n, ci, DefaultKernelEncoder, DefaultKernelDecoder, de, dd))

\* the default sizes, every valid dilation
InitDilation ==
    \E n \in 1..MaxLayers :
        \E de \in ValidDilations(n, MaxDilated), dd \in ValidDilations(n, MaxDilated) :
            InitWith(Args(n, DefaultChannelsInterval, DefaultKernelEncoder,
                          DefaultKernelDecoder, de, dd))

\* the default sizes, every dilation, well-formed or not
InitMalformed ==
    \E n \in 1..MaxLayers :
        \E de \in AnyDilations(n, MaxDilated), dd \in AnyDilations(n, MaxDilated) :
            InitWith(Args(n, DefaultChannelsInterval, DefaultKernelEncoder,
                          DefaultKernelDecoder, de, dd))

NextInit ==
    \/ BuildEncoderLayer
    \/ BuildMiddle
    \/ BuildDecoderLayer
    \/ BuildOut
    \/ Return

Next ==
    \/ BuildEncoderLayer
    \/ BuildMiddle
    \/ BuildDecoderLayer
    \/ BuildOut
    \/ Return
    \/ \E len \in 1..MaxLen : ForwardBegin(len)
    \/ EncoderStep
    \/ Middle
    \/ DecoderStep
    \/ Out

Spec == Init /\ [][Next]_vars

SpecSizes == Init /\ [][NextInit]_vars

SpecForward == InitForward /\ [][Next]_vars

SpecDilation == InitDilation /\ [][NextInit]_vars

SpecMalformed == InitMalformed /\ [][NextInit]_vars

----------------------------------------------------------------------------
\* Properties

Constructing == pc \in {"encoder", "decoder", "constructed", "raised"}

ArgsValidOrAbsent ==
    /\ args.n_layers >= 1
    /\ args.channels_interval >= 1
    /\ args.kernel_size_in_encoder >= 1
    /\ args.kernel_size_in_decoder >= 1
    /\ ~args.dilation_in_encoder.present \/ ValidConfig(args.dilation_in_encoder, args.n_layers)
    /\ ~args.dilation_in_decoder.present \/ ValidConfig(args.dilation_in_decoder, args.n_layers)

Returned == pc = "idle" /\ ret.kind # "none"

Divisible == ipt.length % (2 ^ net.n_layers) = 0

\* C1: for every valid configuration, dilation valid or absent, the network is
\* built, and forward on an input of length k * 2^n_layers returns a tensor of
\* 1 channel and the same length.
C1_ForwardKeepsShape ==
    /\ (Constructing /\ ArgsValidOrAbsent) => pc # "raised"
    /\ (Returned /\ Divisible) =>
           ret = [kind |-> "tensor", channels |-> 1, length |-> ipt.length]

\* C2: for every input length not divisible by 2^n_layers the network is built
\* and forward raises a shape error, returning nothing.
C2_IndivisibleRaises ==
    /\ (Constructing /\ ArgsValidOrAbsent) => pc # "raised"
    /\ (Returned /\ ~Divisible) => ret.kind = "ShapeError"

\* C3: with a dilation argument absent, __init__ does not raise and builds
\* every layer of that stack with dilation 1.
C3_AbsentDilationIsOne ==
    /\ (Constructing /\ ArgsValidOrAbsent /\ ~args.dilation_in_encoder.present) =>
           /\ pc # "raised"
           /\ \A k \in 1..Len(net.encoder) : net.encoder[k].dilation = 1
           /\ pc = "constructed" => Len(net.encoder) = args.n_layers
    /\ (Constructing /\ ArgsValidOrAbsent /\ ~args.dilation_in_decoder.present) =>
           /\ pc # "raised"
           /\ \A k \in 1..Len(net.decoder) : net.decoder[k].dilation = 1
           /\ pc = "constructed" => Len(net.decoder) = args.n_layers

Malformed(cfg, n) ==
    /\ cfg.present
    /\ \/ Len(cfg.layers) # Len(cfg.dilated_rates)
       \/ \E k \in 1..Len(cfg.layers) : cfg.layers[k] \notin 1..n
       \/ ~Distinct(cfg.layers)

\* C4: __init__ never completes on a malformed DilationConfig (lists of
\* different lengths, a layer number outside [1, n_layers], a duplicate).
C4_MalformedRejected ==
    pc = "constructed" =>
        /\ ~Malformed(args.dilation_in_encoder, args.n_layers)
        /\ ~Malformed(args.dilation_in_decoder, args.n_layers)

\* the rate the configuration gives layer number j: dilated_rates[p] where
\* layers[p] = j, and 1 when j is not listed
ListedRate(cfg, j) ==
    IF \E p \in 1..Len(cfg.layers) : cfg.layers[p] = j
    THEN cfg.dilated_rates[CHOOSE p \in 1..Len(cfg.layers) : cfg.layers[p] = j]
    ELSE 1

\* C5: under a valid DilationConfig, layer j of the encoder (of the decoder) is
\* built with dilated_rates[p] when layers[p] = j and with 1 when j is not in
\* layers, and every layer is built.
C5_DilationResolved ==
    Constructing =>
        /\ ValidConfig(args.dilation_in_encoder, args.n_layers) =>
               \A j \in 1..Len(net.encoder) :
                   net.encoder[j].dilation = ListedRate(args.dilation_in_encoder, j)
        /\ ValidConfig(args.dilation_in_decoder, args.n_layers) =>
               \A j \in 1..Len(net.decoder) :
                   net.decoder[j].dilation = ListedRate(args.dilation_in_decoder, j)
        /\ (/\ ValidConfig(args.dilation_in_encoder, args.n_layers)
            /\ ValidConfig(args.dilation_in_decoder, args.n_layers)) =>
               /\ pc # "raised"
               /\ pc = "constructed" =>
                      Len(net.encoder) = args.n_layers /\ Len(net.decoder) = args.n_layers

\* both stacks built from two-entry configurations listed out of layer order
C5_Witness ==
    /\ pc = "constructed"
    /\ Len(args.dilation_in_encoder.layers) = 2
    /\ args.dilation_in_encoder.layers[1] > args.dilation_in_encoder.layers[2]
    /\ Len(args.dilation_in_decoder.layers) = 2
    /\ args.dilation_in_decoder.layers[1] > args.dilation_in_decoder.layers[2]
    /\ net.encoder[1].dilation # net.encoder[2].dilation
    /\ net.decoder[1].dilation # net.decoder[2].dilation

\* C6: the channel plan is four lists of length n_layers with encoder_in[0] = 1,
\* encoder_in[i] = encoder_out[i-1] for i > 0, encoder_out[i] = (i+1) *
\* channels_interval and decoder_out the reverse of encoder_out; the layers
\* are built with these widths.
C6_ChannelPlan ==
    Constructing =>
        LET n    == args.n_layers
            ci   == args.channels_interval
            ein  == encoder_in_channels_list(n, ci)
            eout == encoder_out_channels_list(n, ci)
            din  == decoder_in_channels_list(n, ci)
            dout == decoder_out_channels_list(n, ci)
        IN  /\ Len(ein) = n /\ Len(eout) = n /\ Len(din) = n /\ Len(dout) = n
            /\ ein[1] = 1
            /\ \A k \in 2..n : ein[k] = eout[k - 1]
            /\ \A k \in 1..n : eout[k] = k * ci
            /\ \A k \in 1..n : dout[k] = eout[n + 1 - k]
            /\ \A k \in 1..Len(net.encoder) :
                   /\ net.encoder[k].channel_in = (IF k = 1 THEN 1 ELSE (k - 1) * ci)
                   /\ net.encoder[k].channel_out = k * ci
            /\ \A k \in 1..Len(net.decoder) : net.decoder[k].channel_out = (n + 1 - k) * ci

\* a network of at least two layers and an interval above 1, all built
C6_Witness ==
    /\ pc = "constructed"
    /\ args.n_layers >= 2
    /\ args.channels_interval >= 2
    /\ Len(net.encoder) = args.n_layers
    /\ Len(net.decoder) = args.n_layers

\* C7: decoder stage i declares channel_in = decoder_out[i-1] +
\* encoder_out[n_layers-1-i], the bottleneck's n_layers * channels_interval
\* standing in for decoder_out[-1] (so 2 * n_layers * channels_interval at the
\* deepest stage), and that is the channel count of the concatenation forward
\* feeds the stage.
C7_DecoderChannelIn ==
    /\ \A k \in 1..Len(net.decoder) :
           /\ net.decoder[k].channel_in =
                  (IF k = 1 THEN net.n_layers * net.channels_interval
                            ELSE net.decoder[k - 1].channel_out)
                  + net.encoder[net.n_layers + 1 - k].channel_out
           /\ k = 1 => net.decoder[k].channel_in = 2 * net.n_layers * net.channels_interval
    /\ Len(net.middle) = 1 => net.middle[1].channel_out = net.n_layers * net.channels_interval
    /\ \A j \in 1..Len(reads) :
           /\ reads[j].stage = j - 1
           /\ reads[j].channels = net.decoder[j].channel_in
           /\ reads[j].channels =
                  (IF j = 1 THEN net.middle[1].channel_out ELSE net.decoder[j - 1].channel_out)
                  + reads[j].skip.channels

\* a forward call of a network of at least two layers has run every decoder stage
C7_Witness ==
    /\ pc = "up"
    /\ net.n_layers >= 2
    /\ Len(reads) = net.n_layers
    /\ i = net.n_layers

BuiltLayers ==
    {net.encoder[k] : k \in 1..Len(net.encoder)} \cup {net.decoder[k] : k \in 1..Len(net.decoder)}

KeepsLength(layer) ==
    /\ layer.padding >= 0
    /\ \A len \in 1..MaxLen :
           /\ len + 2 * layer.padding - layer.dilation * (layer.kernel_size - 1) = len
           /\ Conv1d(layer, Tensor(layer.channel_in, len, 0, -1)).length = len

C9_SkipStack ==
    /\ pc = "down" =>
           /\ Len(tmp) = i
           /\ i = 0 => tmp = <<>>
           /\ i >= 1 => o.length = Decimate(tmp[i]).length
    /\ pc = "up" => Len(tmp) = net.n_layers
    /\ pc \in {"down", "up"} =>
           /\ \A k \in 1..Len(tmp) : tmp[k].call = call /\ tmp[k].stage = k - 1
           /\ Len(reads) <= net.n_layers
           /\ pc = "down" => reads = <<>>
           /\ pc = "up" => Len(reads) = i
           /\ \A j \in 1..Len(reads) :
                  /\ reads[j].stage = j - 1
                  /\ reads[j].skip = tmp[net.n_layers - (j - 1)]
                  /\ reads[j].skip.call = call
                  /\ reads[j].skip.stage = net.n_layers - 1 - (j - 1)
           /\ \A j, k \in 1..Len(reads) : j # k => reads[j].skip # reads[k].skip

\* the second call on a network of at least two layers has run every decoder stage
C9_Witness ==
    /\ call = 2
    /\ pc = "up"
    /\ net.n_layers >= 2
    /\ Len(reads) = net.n_layers

\* C10: the decimation after an encoder stage turns length l into floor(l / 2).
C10_DecimateFloors ==
    (pc = "down" /\ i >= 1) => o.length = tmp[i].length \div 2

====
